---- MODULE Spec2Model ----
(***************************************************************************)
(* Neonomaly: services, metrics, per-metric reading chains and the         *)
(* windowed anomaly detector, as implemented by src/src/main.py over the   *)
(* Cypher queries of src/src/db/cypher.py.                                 *)
(*                                                                         *)
(* The graph store is modelled by its nodes and relationships:             *)
(*   services  : the ids of the Service nodes (all owned by user "1")      *)
(*   metrics   : the Metric nodes in creation order, <<svc, name>> each    *)
(*   readings  : the MetricReading nodes in creation order                 *)
(*   latest    : the LATEST_READING relationships, <<metric, reading>>     *)
(*   next      : the NEXT relationships, <<older reading, newer reading>>  *)
(*   appends   : history, the number of append transactions committed per  *)
(*               metric                                                    *)
(*   reqs      : per client, the request in flight: handler, position,     *)
(*               arguments, rows read, answer                              *)
(* A node is named by its position in its sequence (the uuid4 the handler  *)
(* draws is fresh, so it identifies the node).  A reading also records the *)
(* metric whose append created it (history: the graph holds that only as   *)
(* the LATEST_READING and NEXT relationships).                             *)
(*                                                                         *)
(* Every handler is a sequence of database transactions; one transaction   *)
(* is one step, except that the write transaction of add_metric_reading    *)
(* reads (MATCH / OPTIONAL MATCH) in one step and writes and commits in    *)
(* the next: Neo4j runs transactions read-committed and locks only what    *)
(* it writes, so another transaction can commit between the two.           *)
(*                                                                         *)
(* Numbers: reading values are floats in the program; the model uses small *)
(* naturals and exact rational arithmetic (numerator, denominator), so     *)
(* floating-point rounding is outside the model.  Timestamps are integer   *)
(* milliseconds, as in the program; round(x, 2) is kept in hundredths.     *)
(***************************************************************************)
EXTENDS Integers, Sequences, FiniteSets, TLC

(* ------------------------------ bounds -------------------------------- *)
NumClients == 2
MaxServices == 1
MaxMetrics == 2
MaxReadings == 3

Clients == 1..NumClients
ServiceIds == 1..MaxServices
MetricIds == 1..MaxMetrics
Names == {"cpu", "mem"}
Values == {0, 1}
\* time_window_seconds (an int, no validation) and sigma_threshold (a float, no
\* validation) a caller sends, the defaults of the request model among them.
DefaultWindowSeconds == 600
DefaultSigmaThreshold == 3
Windows == {-1, 0, 1, DefaultWindowSeconds}
Sigmas == {-1, 0, 1, DefaultSigmaThreshold}
\* round(x, 2) is modelled in hundredths; no standard deviation of Values exceeds
\* MaxHundredths / 100.
MaxHundredths == 100
\* Caller-supplied datetimes, in microseconds since the epoch.
SuppliedMicros == {0, 1000000, 1000500, 2000000}
\* What the wall clock can read when the caller supplies no timestamp (ms).
ClockMillis == {2000}
NoTimestamp == -1

VARIABLES services, metrics, readings, latest, next, appends, reqs

store == <<services, metrics, readings, latest, next>>
vars == <<services, metrics, readings, latest, next, appends, reqs>>

Idle == [op |-> "idle"]

Init ==
    /\ services = {}
    /\ metrics = <<>>
    /\ readings = <<>>
    /\ latest = {}
    /\ next = {}
    /\ appends = [m \in MetricIds |-> 0]
    /\ reqs = [c \in Clients |-> Idle]

(* ------------------------------ queries ------------------------------- *)
\* MATCH (u:User {id})-[:OWNS]->(s:Service {id: $service_id}) RETURN s
GET_SERVICE_QUERY(service_id) == {s \in services : s = service_id}

\* MATCH (s:Service {id})-[:MONITORS]->(m:Metric {name: $name}) RETURN m
CHECK_EXISTING_METRIC(service_id, name) ==
    {m \in 1..Len(metrics) : metrics[m].svc = service_id /\ metrics[m].name = name}

\* MATCH (u)-[:OWNS]->(s)-[:MONITORS]->(m:Metric {id: $metric_id}) RETURN m, s.id
GET_METRIC_READING_SERVICE_QUERY(metric_id) ==
    {m \in 1..Len(metrics) : m = metric_id /\ metrics[m].svc \in services}

\* GET_METRICS_FROM_SERVICE_QUERY with MATCH in place of OPTIONAL MATCH.
GET_METRICS_FROM_SERVICE_QUERY_NoOptional(service_id) ==
    {row \in [m : 1..Len(metrics), r : 1..Len(readings)] :
        /\ metrics[row.m].svc = service_id
        /\ <<row.m, row.r>> \in latest}

\* MATCH (s:Service {id})-[:MONITORS]->(m:Metric)
\* OPTIONAL MATCH (m)-[:LATEST_READING]->(r:MetricReading) RETURN m, r: one row
\* per metric of the service and latest reading of it, and one row with r null
\* (0) for a metric without a latest reading.
GET_METRICS_FROM_SERVICE_QUERY(service_id) ==
    {row \in [m : 1..Len(metrics), r : 0..Len(readings)] :
        /\ metrics[row.m].svc = service_id
        /\ IF \E x \in 1..Len(readings) : <<row.m, x>> \in latest
              THEN <<row.m, row.r>> \in latest
              ELSE row.r = 0}

\* Row orders that may repeat a row, as a query with a redundant MATCH gives.
RowOrders_Repeating(rows) == [1..Cardinality(rows) -> rows]

\* The orders in which a query without ORDER BY can return its rows.
RowOrders(rows) ==
    {o \in [1..Cardinality(rows) -> rows] :
        \A i, j \in 1..Cardinality(rows) : o[i] = o[j] => i = j}

\* The OPTIONAL MATCH without its anchor on the metric: the latest readings of
\* every metric.
OldReadings_AnyMetric(metric_id) ==
    {r \in 1..Len(readings) : \E m \in 1..Len(metrics) : <<m, r>> \in latest}

\* OPTIONAL MATCH (m)-[r:LATEST_READING]->(oldReading:MetricReading): the old
\* latest readings of the metric; the empty set stands for the single row in which
\* r and oldReading are null.
OldReadings(metric_id) == {r \in 1..Len(readings) : <<metric_id, r>> \in latest}

\* int(reading_timestamp.timestamp() * 1000): a datetime (microseconds) to ms.
ToMillis(micros) == micros \div 1000

RECURSIVE SetToSeq(_)
\* The rows of a result, in ascending node order.
SetToSeq(S) ==
    IF S = {} THEN <<>>
    ELSE LET x == CHOOSE y \in S : \A z \in S : y <= z
         IN  <<x>> \o SetToSeq(S \ {x})

\* CREATE_METRIC_READING_QUERY without its DELETE r: the old latest pointer stays.
CREATE_METRIC_READING_QUERY_NoDelete(metric_id, olds, value, timestamp) ==
    LET n == Len(readings)
        k == Len(olds)
        new == [i \in 1..k |-> [value |-> value, timestamp |-> timestamp, metric |-> metric_id]]
    IN  [readings |-> readings \o new,
         latest |-> latest \cup {<<metric_id, n + i>> : i \in 1..k},
         next |-> next \cup {<<olds[i], n + i>> : i \in {j \in 1..k : olds[j] # 0}},
         returned |-> Cardinality({j \in 1..k : olds[j] # 0})]

\* CREATE_METRIC_READING_QUERY without its CREATE of the NEXT relationship.
CREATE_METRIC_READING_QUERY_NoLink(metric_id, olds, value, timestamp) ==
    LET n == Len(readings)
        k == Len(olds)
        new == [i \in 1..k |-> [value |-> value, timestamp |-> timestamp, metric |-> metric_id]]
    IN  [readings |-> readings \o new,
         latest |-> (latest \ {<<metric_id, olds[i]>> : i \in 1..k})
                        \cup {<<metric_id, n + i>> : i \in 1..k},
         next |-> next,
         returned |-> Cardinality({j \in 1..k : olds[j] # 0})]

\* CREATE_METRIC_READING_QUERY with a SET oldReading.timestamp = $timestamp added.
CREATE_METRIC_READING_QUERY_SetOld(metric_id, olds, value, timestamp) ==
    LET n == Len(readings)
        k == Len(olds)
        new == [i \in 1..k |-> [value |-> value, timestamp |-> timestamp, metric |-> metric_id]]
        touched == [r \in 1..n |->
                      IF \E i \in 1..k : olds[i] = r
                         THEN [readings[r] EXCEPT !.timestamp = timestamp]
                         ELSE readings[r]]
    IN  [readings |-> touched \o new,
         latest |-> (latest \ {<<metric_id, olds[i]>> : i \in 1..k})
                        \cup {<<metric_id, n + i>> : i \in 1..k},
         next |-> next \cup {<<olds[i], n + i>> : i \in {j \in 1..k : olds[j] # 0}},
         returned |-> Cardinality({j \in 1..k : olds[j] # 0})]

\* The writing part of CREATE_METRIC_READING_QUERY, run once per row of the
\* OPTIONAL MATCH (olds; <<0>> is the row with oldReading null): DELETE r, CREATE
\* newReading, CREATE the LATEST_READING relationship and, for the rows that pass
\* WHERE oldReading IS NOT NULL, CREATE the NEXT relationship.  The result is
\* the store after the write and the number of rows the query RETURNs.
CREATE_METRIC_READING_QUERY(metric_id, olds, value, timestamp) ==
    LET n == Len(readings)
        k == Len(olds)
        new == [i \in 1..k |-> [value |-> value, timestamp |-> timestamp, metric |-> metric_id]]
    IN  [readings |-> readings \o new,
         latest |-> (latest \ {<<metric_id, olds[i]>> : i \in 1..k})
                        \cup {<<metric_id, n + i>> : i \in 1..k},
         next |-> next \cup {<<olds[i], n + i>> : i \in {j \in 1..k : olds[j] # 0}},
         returned |-> Cardinality({j \in 1..k : olds[j] # 0})]

(* ----------------------------- detection ------------------------------ *)
RECURSIVE Paths(_)
RECURSIVE PathsFrom(_)
\* MATCH (latestReading)<-[:NEXT*0..]-(reading:MetricReading): the end node of
\* every path of zero or more NEXT relationships that leads to r, the path of
\* length zero first, then the paths through each reading with a NEXT to r.
Paths(r) == <<r>> \o PathsFrom({o \in 1..Len(readings) : <<o, r>> \in next})

PathsFrom(olds) ==
    IF olds = {} THEN <<>>
    ELSE LET o == CHOOSE x \in olds : \A y \in olds : x >= y
         IN  Paths(o) \o PathsFrom(olds \ {o})

\* The window start with the window added instead of subtracted.
WindowStart_Plus(latestReading, timeWindowSeconds) ==
    readings[latestReading].timestamp + (timeWindowSeconds * 1000)

\* The window start with the seconds taken for milliseconds.
WindowStart_NoMillis(latestReading, timeWindowSeconds) ==
    readings[latestReading].timestamp - timeWindowSeconds

\* (latestReading.timestamp - ($time_window_seconds * 1000))
WindowStart(latestReading, timeWindowSeconds) ==
    readings[latestReading].timestamp - (timeWindowSeconds * 1000)

\* The window with the strict comparison reading.timestamp > windowStartTimestamp.
Window_Strict(latestReading, timeWindowSeconds) ==
    LET InWindow(r) ==
            readings[r].timestamp > WindowStart(latestReading, timeWindowSeconds)
    IN  SelectSeq(Paths(latestReading), InWindow)

\* The window of a walk that stops at the first reading before the window start.
Window_Contiguous(latestReading, timeWindowSeconds) ==
    LET walk == Paths(latestReading)
        InWindow(r) ==
            readings[r].timestamp >= WindowStart(latestReading, timeWindowSeconds)
        stops == {i \in 1..Len(walk) : ~InWindow(walk[i])}
    IN  SubSeq(walk, 1, Cardinality({i \in 1..Len(walk) : \A j \in stops : i < j}))

\* WHERE reading.timestamp >= windowStartTimestamp: the rows that are aggregated,
\* newest first.
Window(latestReading, timeWindowSeconds) ==
    LET InWindow(r) ==
            readings[r].timestamp >= WindowStart(latestReading, timeWindowSeconds)
    IN  SelectSeq(Paths(latestReading), InWindow)

WindowValues(w) == [i \in 1..Len(w) |-> readings[w[i]].value]

RECURSIVE Sum(_)
Sum(xs) == IF xs = <<>> THEN 0 ELSE Head(xs) + Sum(Tail(xs))

Abs(x) == IF x < 0 THEN -x ELSE x

\* avg(reading.value), as the fraction num / den.
avg(xs) == [num |-> Sum(xs), den |-> Len(xs)]

\* The square of the population standard deviation (Cypher's stDevP).
stdev_Population(xs) ==
    LET N == Len(xs)
        S == Sum(xs)
    IN  IF N < 2 THEN [num |-> 0, den |-> 1]
        ELSE [num |-> Sum([i \in 1..N |-> (N * xs[i] - S) * (N * xs[i] - S)]),
              den |-> N * N * N]

\* stdev(reading.value): Cypher's stdev is the standard deviation of a sample
\* (divisor N - 1) and 0 for a single value.  The operator gives its square, as
\* the fraction num / den; the deviations are taken from the mean S / N and
\* scaled by N.
stdev(xs) ==
    LET N == Len(xs)
        S == Sum(xs)
    IN  IF N < 2 THEN [num |-> 0, den |-> 1]
        ELSE [num |-> Sum([i \in 1..N |-> (N * xs[i] - S) * (N * xs[i] - S)]),
              den |-> N * N * (N - 1)]

\* The comparison of isAnomaly with >= in place of >.
isAnomaly_NotStrict(value, mean, sigmaThreshold, sd2) ==
    LET dev == Abs(value * mean.den - mean.num)
    IN  IF sigmaThreshold < 0
           THEN TRUE
           ELSE dev * dev * sd2.den
                    >= sigmaThreshold * sigmaThreshold * sd2.num * mean.den * mean.den

\* abs(latestReading.value - mean) > (sigmaThreshold * stdDev), with mean a
\* fraction and stdDev the root of the fraction sd2.  A negative threshold makes
\* the right side negative, or zero when stdDev is zero.
isAnomaly(value, mean, sigmaThreshold, sd2) ==
    LET dev == Abs(value * mean.den - mean.num)
    IN  IF sigmaThreshold < 0
           THEN sd2.num > 0 \/ dev > 0
           ELSE dev * dev * sd2.den
                    > sigmaThreshold * sigmaThreshold * sd2.num * mean.den * mean.den

\* round(mean, 2), in hundredths, of a fraction that is not negative.
round2(q) == (200 * q.num + q.den) \div (2 * q.den)

\* round(stdDev, 2), in hundredths, of the root of the fraction sd2: the
\* number of j >= 1 with j - 1/2 <= 100 * sqrt(sd2).
round2sqrt(sd2) ==
    Cardinality({j \in 1..MaxHundredths :
                    (2 * j - 1) * (2 * j - 1) * sd2.den <= 40000 * sd2.num})

\* datetime.fromtimestamp(ms / 1000): milliseconds to a datetime (microseconds).
FromMillis(ms) == ms * 1000

\* The first MATCH without its anchor on the service: the latest readings of the
\* metrics of that name under any service.
LatestReadings_AnyService(service_id, metric_name) ==
    {r \in 1..Len(readings) :
        \E m \in 1..Len(metrics) : metrics[m].name = metric_name /\ <<m, r>> \in latest}

\* The first MATCH without its LATEST_READING relationship: every reading of the
\* metrics of that name under the service.
LatestReadings_EveryReading(service_id, metric_name) ==
    {r \in 1..Len(readings) :
        readings[r].metric \in CHECK_EXISTING_METRIC(service_id, metric_name)}

\* The first MATCH of CHECK_ANOMALY_DETECTION: the latest readings of the metrics
\* of that name under the service.
LatestReadings(service_id, metric_name) ==
    {r \in 1..Len(readings) :
        \E m \in CHECK_EXISTING_METRIC(service_id, metric_name) : <<m, r>> \in latest}

\* CHECK_ANOMALY_DETECTION: one row per latest reading whose window is not empty
\* (an aggregation with grouping keys gives no row for no input).
CHECK_ANOMALY_DETECTION(service_id, metric_name, time_window_seconds, sigma_threshold) ==
    LET Row(latestReading) ==
            LET values == WindowValues(Window(latestReading, time_window_seconds))
                mean == avg(values)
                stdDev2 == stdev(values)
            IN  [timestamp |-> readings[latestReading].timestamp,
                 value |-> readings[latestReading].value,
                 windowMean |-> round2(mean),
                 windowStdDev |-> round2sqrt(stdDev2),
                 isAnomaly |-> isAnomaly(readings[latestReading].value, mean,
                                         sigma_threshold, stdDev2)]
    IN  {Row(lr) : lr \in {r \in LatestReadings(service_id, metric_name) :
                              Window(r, time_window_seconds) # <<>>}}

(* ------------------------------ handlers ------------------------------ *)
Respond(c, r) == reqs' = [reqs EXCEPT ![c] = [@ EXCEPT !.pc = "done", !.resp = r]]
Goto(c, pc) == reqs' = [reqs EXCEPT ![c].pc = pc]

\* POST /api/services: one write transaction.
create_service(c) ==
    /\ reqs[c].op = "create_service" /\ reqs[c].pc = "write"
    /\ Cardinality(services) < MaxServices
    /\ services' = services \cup {Cardinality(services) + 1}
    /\ Respond(c, [status |-> 201])
    /\ UNCHANGED <<metrics, readings, latest, next, appends>>

\* POST /api/metrics, first read transaction: the service exists.
create_metric_check_service(c) ==
    /\ reqs[c].op = "create_metric" /\ reqs[c].pc = "check_service"
    /\ IF GET_SERVICE_QUERY(reqs[c].svc) = {}
          THEN Respond(c, [status |-> 404])
          ELSE Goto(c, "check_existing")
    /\ UNCHANGED <<store, appends>>

\* create_metric without the rejection of a name in use.
create_metric_check_existing_NoReject(c) ==
    /\ reqs[c].op = "create_metric" /\ reqs[c].pc = "check_existing"
    /\ Goto(c, "write")
    /\ UNCHANGED <<store, appends>>

\* POST /api/metrics, second read transaction: the name is free.
create_metric_check_existing(c) ==
    /\ reqs[c].op = "create_metric" /\ reqs[c].pc = "check_existing"
    /\ IF CHECK_EXISTING_METRIC(reqs[c].svc, reqs[c].name) # {}
          THEN Respond(c, [status |-> 400])
          ELSE Goto(c, "write")
    /\ UNCHANGED <<store, appends>>

\* POST /api/metrics, the write transaction CREATE_METRIC_QUERY.
create_metric_write(c) ==
    /\ reqs[c].op = "create_metric" /\ reqs[c].pc = "write"
    /\ Len(metrics) < MaxMetrics
    /\ metrics' = Append(metrics, [svc |-> reqs[c].svc, name |-> reqs[c].name])
    /\ Respond(c, [status |-> 201])
    /\ UNCHANGED <<services, readings, latest, next, appends>>

\* POST /api/metrics/{metric_id}/readings, the read transaction: the metric
\* exists under a service of the user.
add_metric_reading_check_metric(c) ==
    /\ reqs[c].op = "add_metric_reading" /\ reqs[c].pc = "check_metric"
    /\ IF GET_METRIC_READING_SERVICE_QUERY(reqs[c].metric_id) = {}
          THEN Respond(c, [status |-> 404])
          ELSE Goto(c, "tx_read")
    /\ UNCHANGED <<store, appends>>

\* The write transaction of add_metric_reading, its MATCH and OPTIONAL MATCH:
\* the rows are what is committed when the transaction reads.
add_metric_reading_tx_read(c) ==
    /\ reqs[c].op = "add_metric_reading" /\ reqs[c].pc = "tx_read"
    /\ reqs' = [reqs EXCEPT ![c] = [@ EXCEPT !.pc = "tx_write",
                                             !.rows = OldReadings(reqs[c].metric_id)]]
    /\ UNCHANGED <<store, appends>>

\* The write transaction of add_metric_reading, its DELETE and CREATEs, the
\* commit, and the handler's answer: 500 when the query returned no row.  The
\* body of the request (value, optional timestamp) is drawn here, where the
\* query reads it.
add_metric_reading_tx_write(c) ==
    /\ reqs[c].op = "add_metric_reading" /\ reqs[c].pc = "tx_write"
    /\ \E value \in Values, ts \in SuppliedMicros \cup {NoTimestamp}, now \in ClockMillis :
         LET timestamp == IF ts = NoTimestamp THEN now ELSE ToMillis(ts)
             olds == IF reqs[c].rows = {} THEN <<0>> ELSE SetToSeq(reqs[c].rows)
             w == CREATE_METRIC_READING_QUERY(reqs[c].metric_id, olds, value, timestamp)
         IN  /\ Len(w.readings) <= MaxReadings
             /\ readings' = w.readings
             /\ latest' = w.latest
             /\ next' = w.next
             /\ appends' = [appends EXCEPT ![reqs[c].metric_id] = @ + 1]
             /\ Respond(c, [status |-> IF w.returned = 0 THEN 500 ELSE 201])
    /\ UNCHANGED <<services, metrics>>

\* The write transaction of add_metric_reading fails: the relationship it is to
\* DELETE was deleted by a transaction that committed after this one read.  The
\* database may reject the DELETE; the exception rolls the transaction back and
\* leaves the handler as an internal error.
add_metric_reading_tx_abort(c) ==
    /\ reqs[c].op = "add_metric_reading" /\ reqs[c].pc = "tx_write"
    /\ reqs[c].rows \ OldReadings(reqs[c].metric_id) # {}
    /\ Respond(c, [status |-> 500])
    /\ UNCHANGED <<store, appends>>

\* The handler has returned; the client is free for its next request.
Return(c) ==
    /\ reqs[c].op # "idle" /\ reqs[c].pc = "done"
    /\ reqs' = [reqs EXCEPT ![c] = Idle]
    /\ UNCHANGED <<store, appends>>

\* POST /api/metrics/anomaly-detection, first read transaction.
detect_anomaly_check_service(c) ==
    /\ reqs[c].op = "detect_anomaly" /\ reqs[c].pc = "check_service"
    /\ IF GET_SERVICE_QUERY(reqs[c].svc) = {}
          THEN Respond(c, [status |-> 404, detail |-> "Service not found"])
          ELSE Goto(c, "query")
    /\ UNCHANGED <<store, appends>>

\* POST /api/metrics/anomaly-detection, the read transaction that runs
\* CHECK_ANOMALY_DETECTION, and the answer built from result[0].  The fields of
\* the request that only this query reads are drawn here and kept with the answer.
detect_anomaly_query(c) ==
    /\ reqs[c].op = "detect_anomaly" /\ reqs[c].pc = "query"
    /\ \E n \in Names, w \in Windows, g \in Sigmas :
         LET result == CHECK_ANOMALY_DETECTION(reqs[c].svc, n, w, g)
             Answer(r) == reqs' = [reqs EXCEPT ![c] =
                                     [@ EXCEPT !.pc = "done", !.name = n, !.window = w,
                                               !.sigma = g, !.resp = r]]
         IN  IF result = {}
                THEN Answer([status |-> 404, detail |-> "No data found"])
                ELSE \E data \in result :
                       Answer([status |-> 200,
                               timestamp |-> FromMillis(data.timestamp),
                               value |-> data.value,
                               window_mean |-> data.windowMean,
                               window_std_dev |-> data.windowStdDev,
                               is_anomaly |-> data.isAnomaly])
    /\ UNCHANGED <<store, appends>>

\* GET /api/metrics/service/{service_id}, first read transaction.
list_metrics_check_service(c) ==
    /\ reqs[c].op = "list_metrics" /\ reqs[c].pc = "check_service"
    /\ IF GET_SERVICE_QUERY(reqs[c].svc) = {}
          THEN Respond(c, [status |-> 404])
          ELSE Goto(c, "query")
    /\ UNCHANGED <<store, appends>>

\* One MetricResponse of list_metrics, built from a row: latest_reading is None
\* when r is null, otherwise the reading's value and its timestamp as a datetime.
MetricResponse(row) ==
    [id |-> row.m,
     name |-> metrics[row.m].name,
     service_id |-> metrics[row.m].svc,
     latest_reading |->
        IF row.r = 0
           THEN [none |-> TRUE]
           ELSE [id |-> row.r,
                 value |-> readings[row.r].value,
                 timestamp |-> FromMillis(readings[row.r].timestamp)]]

\* GET /api/metrics/service/{service_id}, the read transaction that runs
\* GET_METRICS_FROM_SERVICE_QUERY, and the list built from its rows in the
\* order the database returns them.
list_metrics_query(c) ==
    /\ reqs[c].op = "list_metrics" /\ reqs[c].pc = "query"
    /\ \E result \in RowOrders(GET_METRICS_FROM_SERVICE_QUERY(reqs[c].svc)) :
         Respond(c, [status |-> 200,
                     metrics |-> [i \in 1..Len(result) |-> MetricResponse(result[i])]])
    /\ UNCHANGED <<store, appends>>

\* A client sends POST /api/services.
StartCreateService(c) ==
    /\ reqs[c] = Idle
    /\ Cardinality(services) < MaxServices
    /\ reqs' = [reqs EXCEPT ![c] = [op |-> "create_service", pc |-> "write", resp |-> <<>>]]
    /\ UNCHANGED <<store, appends>>

\* A client sends POST /api/metrics.
StartCreateMetric(c) ==
    /\ reqs[c] = Idle
    /\ Len(metrics) < MaxMetrics
    /\ \E s \in ServiceIds, n \in Names :
         reqs' = [reqs EXCEPT ![c] =
                    [op |-> "create_metric", pc |-> "check_service",
                     svc |-> s, name |-> n, resp |-> <<>>]]
    /\ UNCHANGED <<store, appends>>

\* A client sends POST /api/metrics/{metric_id}/readings.
StartAddMetricReading(c) ==
    /\ reqs[c] = Idle
    /\ Len(readings) < MaxReadings
    /\ \E m \in MetricIds :
         reqs' = [reqs EXCEPT ![c] =
                    [op |-> "add_metric_reading", pc |-> "check_metric",
                     metric_id |-> m, rows |-> {}, resp |-> <<>>]]
    /\ UNCHANGED <<store, appends>>

\* A client sends POST /api/metrics/anomaly-detection.
StartDetectAnomaly(c) ==
    /\ reqs[c] = Idle
    /\ \E s \in ServiceIds :
         reqs' = [reqs EXCEPT ![c] =
                    [op |-> "detect_anomaly", pc |-> "check_service", svc |-> s,
                     name |-> "", window |-> 0, sigma |-> 0, resp |-> <<>>]]
    /\ UNCHANGED <<store, appends>>

\* A client sends GET /api/metrics/service/{service_id}.
StartListMetrics(c) ==
    /\ reqs[c] = Idle
    /\ \E s \in ServiceIds :
         reqs' = [reqs EXCEPT ![c] =
                    [op |-> "list_metrics", pc |-> "check_service", svc |-> s,
                     resp |-> <<>>]]
    /\ UNCHANGED <<store, appends>>

(* --------------------------- specifications --------------------------- *)
\* Requests arrive one after another: each handler runs to its answer before the
\* next request is sent.  Which client sends them makes no difference, so client 1
\* sends them all.
SeqNext ==
    \/ StartCreateService(1)
    \/ StartCreateMetric(1)
    \/ StartAddMetricReading(1)
    \/ StartDetectAnomaly(1)
    \/ StartListMetrics(1)
    \/ create_service(1)
    \/ create_metric_check_service(1)
    \/ create_metric_check_existing(1)
    \/ create_metric_write(1)
    \/ add_metric_reading_check_metric(1)
    \/ add_metric_reading_tx_read(1)
    \/ add_metric_reading_tx_write(1)
    \/ detect_anomaly_check_service(1)
    \/ detect_anomaly_query(1)
    \/ list_metrics_check_service(1)
    \/ list_metrics_query(1)
    \/ Return(1)

SeqSpec == Init /\ [][SeqNext]_vars

\* One metric and its chain: the store after POST /api/services and
\* POST /api/metrics {name: "cpu"}, then appends and detections one after
\* another.  The metric id MaxMetrics and the name "mem" name no metric.
ChainInit ==
    /\ services = {1}
    /\ metrics = <<[svc |-> 1, name |-> "cpu"]>>
    /\ readings = <<>>
    /\ latest = {}
    /\ next = {}
    /\ appends = [m \in MetricIds |-> 0]
    /\ reqs = [c \in Clients |-> Idle]

ChainNext ==
    \/ StartAddMetricReading(1)
    \/ StartDetectAnomaly(1)
    \/ add_metric_reading_check_metric(1)
    \/ add_metric_reading_tx_read(1)
    \/ add_metric_reading_tx_write(1)
    \/ detect_anomaly_check_service(1)
    \/ detect_anomaly_query(1)
    \/ Return(1)

ChainSpec == ChainInit /\ [][ChainNext]_vars

\* Concurrent appends: the store of ChainInit, and every client appending at any
\* time, the transactions of different requests interleaved.
AppendRaceNext ==
    \E c \in Clients :
        \/ StartAddMetricReading(c)
        \/ add_metric_reading_check_metric(c)
        \/ add_metric_reading_tx_read(c)
        \/ add_metric_reading_tx_write(c)
        \/ add_metric_reading_tx_abort(c)
        \/ Return(c)

AppendRaceSpec == ChainInit /\ [][AppendRaceNext]_vars

\* Concurrent registration: from the empty store, every client creating services
\* and metrics at any time, the transactions of different requests interleaved.
RegisterRaceNext ==
    \E c \in Clients :
        \/ StartCreateService(c)
        \/ StartCreateMetric(c)
        \/ create_service(c)
        \/ create_metric_check_service(c)
        \/ create_metric_check_existing(c)
        \/ create_metric_write(c)
        \/ Return(c)

RegisterRaceSpec == Init /\ [][RegisterRaceNext]_vars

\* Registration and listing: from the empty store, every client creating
\* services and metrics and listing the metrics at any time, the transactions of
\* different requests interleaved.
RegistryNext ==
    \E c \in Clients :
        \/ StartCreateService(c)
        \/ StartCreateMetric(c)
        \/ StartListMetrics(c)
        \/ create_service(c)
        \/ create_metric_check_service(c)
        \/ create_metric_check_existing(c)
        \/ create_metric_write(c)
        \/ list_metrics_check_service(c)
        \/ list_metrics_query(c)
        \/ Return(c)

RegistrySpec == Init /\ [][RegistryNext]_vars

\* Two metrics: the store after two POST /api/services and two
\* POST /api/metrics, the second metric either another name under the first
\* service or the same name under the second service.
TwoMetricsInit ==
    /\ services = {1, 2}
    /\ metrics \in {<<[svc |-> 1, name |-> "cpu"], [svc |-> 1, name |-> "mem"]>>,
                    <<[svc |-> 1, name |-> "cpu"], [svc |-> 2, name |-> "cpu"]>>}
    /\ readings = <<>>
    /\ latest = {}
    /\ next = {}
    /\ appends = [m \in MetricIds |-> 0]
    /\ reqs = [c \in Clients |-> Idle]

\* Appends to the two metrics and listings, one request after another.
ListNext ==
    \/ StartAddMetricReading(1)
    \/ StartListMetrics(1)
    \/ add_metric_reading_check_metric(1)
    \/ add_metric_reading_tx_read(1)
    \/ add_metric_reading_tx_write(1)
    \/ list_metrics_check_service(1)
    \/ list_metrics_query(1)
    \/ Return(1)

ListSpec == TwoMetricsInit /\ [][ListNext]_vars

\* Detection while the chain grows: the store of ChainInit, client 1 appending
\* and client 2 detecting at any time, their transactions interleaved.
SnapshotNext ==
    \/ StartAddMetricReading(1)
    \/ add_metric_reading_check_metric(1)
    \/ add_metric_reading_tx_read(1)
    \/ add_metric_reading_tx_write(1)
    \/ Return(1)
    \/ StartDetectAnomaly(2)
    \/ detect_anomaly_check_service(2)
    \/ detect_anomaly_query(2)
    \/ Return(2)

SnapshotSpec == ChainInit /\ [][SnapshotNext]_vars

\* Concurrent appends to two metrics: the store of TwoMetricsInit, and every
\* client appending to either metric at any time, the transactions of different
\* requests interleaved.
TwoMetricsRaceSpec == TwoMetricsInit /\ [][AppendRaceNext]_vars

\* Detection beside another metric: the store of TwoMetricsInit, then appends to
\* either metric and detections, one request after another.
IsolationSpec == TwoMetricsInit /\ [][ChainNext]_vars

(* ------------------------------- claims ------------------------------- *)
Done(c, op) == reqs[c].op = op /\ reqs[c].pc = "done"

Range(xs) == {xs[i] : i \in 1..Len(xs)}

Reverse(xs) == [i \in 1..Len(xs) |-> xs[Len(xs) + 1 - i]]

\* The readings created by appends to metric m, oldest first.
ReadingsOf(m) == SetToSeq({r \in 1..Len(readings) : readings[r].metric = m})

NextOf(r) == {n \in 1..Len(readings) : <<r, n>> \in next}

AppendInFlight(m) ==
    \E c \in Clients :
        /\ reqs[c].op = "add_metric_reading"
        /\ reqs[c].pc # "done"
        /\ reqs[c].metric_id = m

\* C1: an append to a metric that exists is answered with the success
\* acknowledgement (201), the first append to a metric with no reading included;
\* an append fails only with NotFound (404), when the metric does not exist.
C1_AppendAcknowledged ==
    \A c \in Clients :
        Done(c, "add_metric_reading") =>
            reqs[c].resp.status =
                IF GET_METRIC_READING_SERVICE_QUERY(reqs[c].metric_id) # {} THEN 201 ELSE 404

\* C2: once the concurrent appends fired at a metric have all returned, the metric
\* has no latest pointer if none committed, and otherwise exactly one latest
\* pointer, from which the walk backward along NEXT visits exactly as many
\* readings as appends committed, each once, none of the metric's readings missing.
C2_ConcurrentAppendsChain ==
    \A m \in 1..Len(metrics) :
        ~AppendInFlight(m) =>
            IF appends[m] = 0
               THEN OldReadings(m) = {}
               ELSE /\ Cardinality(OldReadings(m)) = 1
                    /\ \A lr \in OldReadings(m) :
                         /\ Len(Paths(lr)) = appends[m]
                         /\ Cardinality(Range(Paths(lr))) = appends[m]
                         /\ Range(Paths(lr)) = Range(ReadingsOf(m))

\* C3: after N appends to a metric made one after another, the metric has no
\* latest reading if N = 0 and exactly one if N > 0, the reading appended last;
\* the walk backward from it enumerates all N readings once, in reverse insertion
\* order; every reading but the latest has exactly one NEXT, to the reading
\* inserted right after it, and the latest has none.
C3_SequentialChain ==
    \A m \in 1..Len(metrics) :
        LET mine == ReadingsOf(m)
            N == appends[m]
        IN  /\ Len(mine) = N
            /\ N = 0 => OldReadings(m) = {}
            /\ N > 0 =>
                 /\ OldReadings(m) = {mine[N]}
                 /\ Paths(mine[N]) = Reverse(mine)
                 /\ \A i \in 1..N :
                      NextOf(mine[i]) = IF i < N THEN {mine[i + 1]} ELSE {}

\* Three appends to metric 1 have committed.
C3_Witness == appends[1] = 3 /\ Len(Paths(3)) = 3

\* C4: no two metrics under the same service share a name.
C4_UniqueMetricNames ==
    \A m1, m2 \in 1..Len(metrics) :
        (metrics[m1].svc = metrics[m2].svc /\ metrics[m1].name = metrics[m2].name)
            => m1 = m2

\* C5: the step in which add_metric_reading answers with an error (404 or 500)
\* leaves the store as it was: no reading created, no latest pointer changed, no
\* NEXT added.
C5_ErrorLeavesStore ==
    [][\A c \in Clients :
          (/\ reqs[c].op = "add_metric_reading"
           /\ reqs[c].pc # "done"
           /\ reqs'[c].pc = "done"
           /\ reqs'[c].resp.status \in {404, 500})
              => store' = store]_vars

\* C6: detection on a metric that exists and has no reading is answered with the
\* NoData outcome (no zero-filled result), and detection on a metric name that
\* does not exist under the service is answered with another outcome.
C6_NoDataDistinctFromNotFound ==
    \A c \in Clients :
        (Done(c, "detect_anomaly") /\ reqs[c].svc \in services) =>
            LET exists == CHECK_EXISTING_METRIC(reqs[c].svc, reqs[c].name) # {}
                noData == /\ reqs[c].resp.status = 404
                          /\ reqs[c].resp.detail = "No data found"
            IN  /\ (exists /\ LatestReadings(reqs[c].svc, reqs[c].name) = {}) => noData
                /\ ~exists => ~noData
\* The old readings of a chain: every reading the walk backward from lr visits
\* after lr itself.
Older(lr) == Range(Paths(lr)) \ {lr}

\* C7: for a chain whose timestamps do not decrease in insertion order (the
\* millisecond timestamps of appends with strictly increasing supplied
\* timestamps), the window for every W is exactly the readings with
\* timestamp >= latest.timestamp - W * 1000, newest first, which is a suffix of
\* the chain, and the window for a larger W is at least as long.
C7_WindowIsSuffix ==
    \A m \in 1..Len(metrics) :
        LET mine == ReadingsOf(m)
            N == Len(mine)
            newestFirst == Reverse(mine)
        IN  (/\ OldReadings(m) # {}
             /\ \A i \in 1..(N - 1) :
                  readings[mine[i]].timestamp <= readings[mine[i + 1]].timestamp) =>
                \A lr \in OldReadings(m), W \in Windows :
                    LET w == Window(lr, W)
                        InW(r) == readings[r].timestamp >= readings[lr].timestamp - W * 1000
                    IN  /\ w = SelectSeq(newestFirst, InW)
                        /\ w = SubSeq(newestFirst, 1, Len(w))
                        /\ \A W2 \in Windows : W <= W2 => Len(w) <= Len(Window(lr, W2))

\* A detection with a window of one second has answered for a chain of three
\* readings with increasing timestamps; its window holds the two newest.
C7_Witness ==
    /\ Done(1, "detect_anomaly") /\ reqs[1].name = "cpu" /\ reqs[1].window = 1
    /\ reqs[1].resp.status = 200
    /\ Len(readings) = 3
    /\ readings[1].timestamp < readings[2].timestamp
    /\ readings[2].timestamp < readings[3].timestamp
    /\ Window(3, 1) = <<3, 2>>

\* C8 as stated: for a metric with a reading and every window_seconds, negative
\* ones included, the window holds the latest reading, and detection answers with
\* a result.
C8_WindowContainsLatest ==
    \A c \in Clients :
        Done(c, "detect_anomaly") =>
            \A lr \in LatestReadings(reqs[c].svc, reqs[c].name) :
                /\ lr \in Range(Window(lr, reqs[c].window))
                /\ reqs[c].resp.status = 200

\* C8, amended: for a metric with a reading and every window_seconds >= 0, the
\* window holds the latest reading, and detection answers with a result.
C8_WindowContainsLatestWhenNotNegative ==
    \A c \in Clients :
        (Done(c, "detect_anomaly") /\ reqs[c].window >= 0) =>
            \A lr \in LatestReadings(reqs[c].svc, reqs[c].name) :
                /\ lr \in Range(Window(lr, reqs[c].window))
                /\ reqs[c].resp.status = 200

\* A detection with a window of one second has answered for a chain whose latest
\* reading carries a smaller timestamp than the reading before it.
C8_Witness ==
    /\ Done(1, "detect_anomaly") /\ reqs[1].name = "cpu" /\ reqs[1].window = 1
    /\ Len(readings) = 2
    /\ OldReadings(1) = {2}
    /\ readings[2].timestamp < readings[1].timestamp
    /\ reqs[1].resp.status = 200

\* What detection with window_seconds = 0 answers when its window is the latest
\* reading alone: that reading, its value as mean, deviation 0, no anomaly.
OnlyLatest(c, lr) ==
    /\ Window(lr, 0) = <<lr>>
    /\ reqs[c].resp.status = 200
    /\ reqs[c].resp.value = readings[lr].value
    /\ reqs[c].resp.window_mean = 100 * readings[lr].value
    /\ reqs[c].resp.window_std_dev = 0
    /\ reqs[c].resp.is_anomaly = FALSE

\* C9 as stated: whatever the timestamps of the chain, detection with
\* window_seconds = 0 uses the latest reading alone: mean = value, deviation 0,
\* no anomaly for any sigma_threshold.
C9_ZeroWindowOnlyLatest ==
    \A c \in Clients :
        (Done(c, "detect_anomaly") /\ reqs[c].window = 0) =>
            \A lr \in LatestReadings(reqs[c].svc, reqs[c].name) : OnlyLatest(c, lr)

\* C9, amended: when every older reading of the chain has a timestamp below the
\* latest reading's, detection with window_seconds = 0 uses the latest reading
\* alone: mean = value, deviation 0, no anomaly for any sigma_threshold.
C9_ZeroWindowOnlyLatestWhenNewest ==
    \A c \in Clients :
        (Done(c, "detect_anomaly") /\ reqs[c].window = 0) =>
            \A lr \in LatestReadings(reqs[c].svc, reqs[c].name) :
                (\A r \in Older(lr) : readings[r].timestamp < readings[lr].timestamp)
                    => OnlyLatest(c, lr)

\* A detection with window 0 and a negative threshold has answered for a chain
\* of two readings of different values, the older with the smaller timestamp.
C9_Witness ==
    /\ Done(1, "detect_anomaly") /\ reqs[1].name = "cpu" /\ reqs[1].window = 0
    /\ reqs[1].sigma = -1
    /\ Len(readings) = 2
    /\ readings[1].timestamp < readings[2].timestamp
    /\ readings[1].value # readings[2].value
    /\ OldReadings(1) = {2}

\* N * sum(v^2) - (sum v)^2, which is N * sum((v - mean)^2).
SquaresSpread(xs) ==
    Len(xs) * Sum([i \in 1..Len(xs) |-> xs[i] * xs[i]]) - Sum(xs) * Sum(xs)

C11_EqualWindowNeverAnomalous ==
    \A c \in Clients :
        (Done(c, "detect_anomaly") /\ reqs[c].resp.status = 200) =>
            \A lr \in LatestReadings(reqs[c].svc, reqs[c].name) :
                LET xs == WindowValues(Window(lr, reqs[c].window))
                IN  (\A i \in 1..Len(xs) : xs[i] = readings[lr].value) =>
                        /\ reqs[c].resp.is_anomaly = FALSE
                        /\ reqs[c].resp.window_std_dev = 0
                        /\ reqs[c].resp.window_mean = 100 * readings[lr].value

\* A detection with a negative threshold has answered over a window of three
\* readings of one value.
C11_Witness ==
    /\ Done(1, "detect_anomaly") /\ reqs[1].resp.status = 200
    /\ reqs[1].sigma = -1
    /\ reqs[1].name = "cpu"
    /\ \E lr \in LatestReadings(1, "cpu") :
         LET xs == WindowValues(Window(lr, reqs[1].window))
         IN  Len(xs) = 3 /\ \A i \in 1..3 : xs[i] = readings[lr].value

\* The answers detect_anomaly can give to a request in the current store: NoData
\* when the query has no row, otherwise the answer built from a row.
DetectOutcomes(service_id, metric_name, time_window_seconds, sigma_threshold) ==
    LET result == CHECK_ANOMALY_DETECTION(service_id, metric_name,
                                          time_window_seconds, sigma_threshold)
    IN  IF result = {}
           THEN {[status |-> 404, detail |-> "No data found"]}
           ELSE {[status |-> 200,
                  timestamp |-> FromMillis(data.timestamp),
                  value |-> data.value,
                  window_mean |-> data.windowMean,
                  window_std_dev |-> data.windowStdDev,
                  is_anomaly |-> data.isAnomaly] : data \in result}

C13_ReadingsImmutable ==
    [][/\ Len(readings') >= Len(readings)
       /\ \A r \in 1..Len(readings) : readings'[r] = readings[r]
       /\ next \subseteq next'
       /\ \A e \in next' \ next :
            /\ e[1] \in 1..Len(readings)
            /\ e[2] \in (Len(readings) + 1)..Len(readings')
            /\ \E c \in Clients :
                 /\ reqs[c].op = "add_metric_reading" /\ reqs[c].pc = "tx_write"
                 /\ reqs'[c].pc = "done"
                 /\ e[1] \in reqs[c].rows
                 /\ readings'[e[2]].metric = reqs[c].metric_id
            /\ \A f \in next' \ next : f[1] = e[1] => f = e]_vars

\* The second append to metric 1 has returned: the first reading, with the value
\* and timestamp it was created with, is linked to the second.
C13_Witness ==
    /\ Done(1, "add_metric_reading") /\ reqs[1].resp.status = 201
    /\ Len(readings) = 2
    /\ next = {<<1, 2>>}
    /\ readings[1].timestamp # readings[2].timestamp

\* A metric of that name exists under the service.
NameInUse(service_id, name) ==
    \E m \in 1..Len(metrics) : metrics[m].svc = service_id /\ metrics[m].name = name

\* C14: create_metric checks before it writes.  Its first transaction answers
\* 404 when the service does not exist and passes on only when it exists; its
\* second answers 400 when a metric of that name exists under the service and
\* passes on to the write only when the name is free; the step that answers 404
\* or 400 leaves the store unchanged, and a metric is created only by a request
\* that has passed both checks.
C14_CreateMetricChecksFirst ==
    [][/\ \A c \in Clients :
            (reqs[c].op = "create_metric" /\ reqs'[c] # reqs[c]) =>
                /\ reqs[c].pc = "check_service" =>
                      IF reqs[c].svc \in services
                         THEN reqs'[c].pc = "check_existing"
                         ELSE reqs'[c].pc = "done" /\ reqs'[c].resp.status = 404
                /\ reqs[c].pc = "check_existing" =>
                      IF NameInUse(reqs[c].svc, reqs[c].name)
                         THEN reqs'[c].pc = "done" /\ reqs'[c].resp.status = 400
                         ELSE reqs'[c].pc = "write"
                /\ reqs[c].pc \in {"check_service", "check_existing"} => store' = store
                /\ reqs[c].pc = "write" =>
                      /\ reqs'[c].resp.status = 201
                      /\ metrics' = Append(metrics, [svc |-> reqs[c].svc,
                                                      name |-> reqs[c].name])
       /\ metrics' # metrics =>
            \E c \in Clients :
                /\ reqs[c].op = "create_metric" /\ reqs[c].pc = "write"
                /\ reqs'[c].pc = "done"]_vars

\* One create_metric has been rejected for a missing service, another for a
\* name in use; the store holds the one metric created before.
C14_Witness ==
    /\ Done(1, "create_metric") /\ reqs[1].resp.status = 400
    /\ Done(2, "create_metric") /\ reqs[2].resp.status = 404
    /\ Len(metrics) = 1

\* C15: list_metrics answers with every metric of the service exactly once and
\* no other metric, each with the value and the timestamp of the reading
\* appended to it last, or with no reading when none was appended to it.
C15_ListEveryMetricWithLatest ==
    \A c \in Clients :
        (Done(c, "list_metrics") /\ reqs[c].resp.status = 200) =>
            LET out == reqs[c].resp.metrics
            IN  /\ \A m \in 1..Len(metrics) :
                     metrics[m].svc = reqs[c].svc =>
                        Cardinality({i \in 1..Len(out) : out[i].id = m}) = 1
                /\ \A i \in 1..Len(out) :
                     LET mine == ReadingsOf(out[i].id)
                     IN  /\ out[i].id \in 1..Len(metrics)
                         /\ metrics[out[i].id].svc = reqs[c].svc
                         /\ out[i].name = metrics[out[i].id].name
                         /\ IF mine = <<>>
                               THEN out[i].latest_reading = [none |-> TRUE]
                               ELSE /\ out[i].latest_reading.value
                                         = readings[mine[Len(mine)]].value
                                    /\ out[i].latest_reading.timestamp
                                         = 1000 * readings[mine[Len(mine)]].timestamp

\* A listing has answered after two appends to the first metric and none to the
\* second, which is under the same service.
C15_Witness ==
    /\ Done(1, "list_metrics") /\ reqs[1].resp.status = 200
    /\ Len(reqs[1].resp.metrics) = 2
    /\ appends[1] = 2 /\ appends[2] = 0
    /\ readings[1].value # readings[2].value

\* C16 as stated: list_metrics answers in the order of registration, a metric
\* registered earlier before one registered later.
C16_ListInRegistrationOrder ==
    \A c \in Clients :
        (Done(c, "list_metrics") /\ reqs[c].resp.status = 200) =>
            LET out == reqs[c].resp.metrics
            IN  \A i, j \in 1..Len(out) : i < j => out[i].id < out[j].id

\* C16, amended: list_metrics answers with the metrics registered under the
\* service when its query runs, each once, in the order the database returns
\* the rows, which need not be the order of registration.
C16_ListInSomeOrder ==
    [][\A c \in Clients :
          (reqs[c].op = "list_metrics" /\ reqs[c].pc = "query" /\ reqs'[c].pc = "done") =>
              LET out == reqs'[c].resp.metrics
                  mine == {m \in 1..Len(metrics) : metrics[m].svc = reqs[c].svc}
              IN  /\ Len(out) = Cardinality(mine)
                  /\ {out[i].id : i \in 1..Len(out)} = mine]_vars

\* A listing has answered with the metric registered second before the metric
\* registered first.
C16_Witness ==
    /\ Done(1, "list_metrics") /\ reqs[1].resp.status = 200
    /\ Len(reqs[1].resp.metrics) = 2
    /\ reqs[1].resp.metrics[1].id = 2
    /\ reqs[1].resp.metrics[2].id = 1

RECURSIVE Run(_, _)
\* The readings of a newest-first chain up to, and without, the first one whose
\* timestamp is below the cutoff.
Run(chain, cutoff) ==
    IF chain = <<>> \/ readings[Head(chain)].timestamp < cutoff
       THEN <<>>
       ELSE <<Head(chain)>> \o Run(Tail(chain), cutoff)

AnswerAsOf(lr, time_window_seconds, sigma_threshold) ==
    LET values == WindowValues(Window(lr, time_window_seconds))
    IN  IF values = <<>>
           THEN [status |-> 404, detail |-> "No data found"]
           ELSE [status |-> 200,
                 timestamp |-> 1000 * readings[lr].timestamp,
                 value |-> readings[lr].value,
                 window_mean |-> round2(avg(values)),
                 window_std_dev |-> round2sqrt(stdev(values)),
                 is_anomaly |-> isAnomaly(readings[lr].value, avg(values),
                                          sigma_threshold, stdev(values))]

\* No committed store shows a chain half relinked: a metric with readings has
\* one latest pointer, to its newest reading, and each reading but the newest
\* has its NEXT link to the reading appended right after it.
FullyLinked ==
    \A m \in 1..Len(metrics) :
        LET mine == ReadingsOf(m)
            N == Len(mine)
        IN  /\ OldReadings(m) = IF N = 0 THEN {} ELSE {mine[N]}
            /\ \A i \in 1..N : NextOf(mine[i]) = IF i < N THEN {mine[i + 1]} ELSE {}

\* The answer a detection has given is the answer for the chain as of one of
\* its readings, whatever was appended since.
AnswersAChainState(c) ==
    (Done(c, "detect_anomaly") /\ reqs[c].resp.status = 200) =>
        \E m \in CHECK_EXISTING_METRIC(reqs[c].svc, reqs[c].name) :
            \E lr \in Range(ReadingsOf(m)) :
                reqs[c].resp = AnswerAsOf(lr, reqs[c].window, reqs[c].sigma)

C19_AppendLeavesOtherMetrics ==
    [][/\ \A c \in Clients :
            (reqs[c].op = "add_metric_reading" /\ reqs[c].pc = "tx_write"
                                               /\ reqs'[c].pc = "done") =>
                LET A == reqs[c].metric_id
                    created == (Len(readings) + 1)..Len(readings')
                IN  /\ \A B \in (1..Len(metrics)) \ {A} :
                         {r \in 1..Len(readings') : <<B, r>> \in latest'}
                            = {r \in 1..Len(readings) : <<B, r>> \in latest}
                    /\ \A r \in created : \A m \in 1..Len(metrics) :
                         <<m, r>> \in latest' <=> m = A
                    /\ \A r \in 1..Len(readings) : readings'[r] = readings[r]
                    /\ next \subseteq next'
                    /\ \A e \in next' \ next :
                         readings[e[1]].metric = A /\ e[2] \in created
       /\ \A e \in next' : readings'[e[1]].metric = readings'[e[2]].metric]_vars

\* Appends to the two metrics have interleaved: the first and the third reading
\* are of metric 1 and linked, the second is of metric 2 and its latest.
C19_Witness ==
    /\ Len(readings) = 3
    /\ readings[1].metric = 1 /\ readings[2].metric = 2 /\ readings[3].metric = 1
    /\ next = {<<1, 3>>}
    /\ latest = {<<1, 3>>, <<2, 2>>}

\* The chain of metric m by itself: the value and timestamp of each of its
\* readings, oldest first.
ChainOf(m) ==
    LET mine == ReadingsOf(m)
    IN  [i \in 1..Len(mine) |-> [value |-> readings[mine[i]].value,
                                 timestamp |-> readings[mine[i]].timestamp]]

\* Detection as a function of a chain alone (values and timestamps, oldest
\* first) and the request's window and threshold.
ChainAnswer(chain, time_window_seconds, sigma_threshold) ==
    LET N == Len(chain)
        InRange(b) == b.timestamp >= chain[N].timestamp - time_window_seconds * 1000
        inWindow == SelectSeq(Reverse(chain), InRange)
        values == [i \in 1..Len(inWindow) |-> inWindow[i].value]
    IN  IF N = 0 \/ values = <<>>
           THEN [status |-> 404, detail |-> "No data found"]
           ELSE [status |-> 200,
                 timestamp |-> 1000 * chain[N].timestamp,
                 value |-> chain[N].value,
                 window_mean |-> round2(avg(values)),
                 window_std_dev |-> round2sqrt(stdev(values)),
                 is_anomaly |-> isAnomaly(chain[N].value, avg(values),
                                          sigma_threshold, stdev(values))]

\* C20: the answer of a detection for (service, metric name) is a function of
\* the chain of the metric of that name under that service, and of nothing
\* else in the store: whatever the readings of other metrics, under the same
\* or another service, of the same or another name, stores that agree on that
\* chain get the same answer.
C20_DetectionDependsOnOwnChain ==
    \A c \in Clients :
        (Done(c, "detect_anomaly") /\ reqs[c].svc \in services) =>
            LET named == CHECK_EXISTING_METRIC(reqs[c].svc, reqs[c].name)
            IN  IF named = {}
                   THEN reqs[c].resp = [status |-> 404, detail |-> "No data found"]
                   ELSE \A m \in named :
                          reqs[c].resp
                              = ChainAnswer(ChainOf(m), reqs[c].window, reqs[c].sigma)

\* A detection for "cpu" under service 1 has answered while the metric "cpu" of
\* service 2 holds a reading, appended between the two readings of the first
\* metric, with another value and timestamp than the latest of the first.
C20_Witness ==
    /\ Done(1, "detect_anomaly") /\ reqs[1].name = "cpu" /\ reqs[1].resp.status = 200
    /\ metrics[2] = [svc |-> 2, name |-> "cpu"]
    /\ Len(readings) = 3
    /\ readings[1].metric = 1 /\ readings[2].metric = 2 /\ readings[3].metric = 1
    /\ readings[2].value # readings[3].value
    /\ readings[2].timestamp # readings[3].timestamp
====
